---- MODULE Spec2Model ----
(***************************************************************************)
(* Model of the Pagination component of windmill-react-ui                  *)
(* (src/src/Pagination.tsx).                                               *)
(*                                                                         *)
(* The component keeps two pieces of hook state, `page` and `pages`, and   *)
(* derives TOTAL_PAGES from its props on every render.  Two passive        *)
(* effects run after a commit: the window effect (deps [page,              *)
(* TOTAL_PAGES]) stores a freshly computed window with setPages, and the   *)
(* onChange effect (deps [page]) calls the caller's onChange(page).        *)
(*                                                                         *)
(* Scheduling.  React flushes the passive effects of a commit before it    *)
(* renders the next update.  The effects of a commit caused by a click are *)
(* flushed before the next click is handled; those of the first render and *)
(* of a render caused by the parent are deferred until after the paint, so *)
(* a click can reach the handlers of that render before its effects have   *)
(* run.  The click handlers of Previous and Next read `page`, which such a *)
(* render has up to date; the page buttons come from `pages`, which it has *)
(* not (StalePageClick).  Each handler action below is the handler plus    *)
(* the render and commit its setState causes; FlushEffects is the effect   *)
(* flush plus the re-render that setPages causes.                          *)
(*                                                                         *)
(* JavaScript values.  Props and state are integers; an absent optional    *)
(* prop (undefined) is the empty sequence and a supplied one is <<n>>.     *)
(* A window entry is a record: type "number" with its value, or type       *)
(* "string" for the literal '...'.  resultsPerPage = 0 (a division by      *)
(* zero, giving Infinity or NaN) is outside the modelled inputs.           *)
(***************************************************************************)
EXTENDS Integers, Sequences, FiniteSets, TLC

(* ---------------- bounds of the model ---------------- *)

\* largest totalResults the caller passes
MaxTotalResults == 10
\* most negative totalResults the caller passes is -MaxNegative
MaxNegative == 1
\* largest resultsPerPage the caller passes
MaxResultsPerPage == 1
\* largest activePage the caller passes
MaxActivePage == 2
\* number of user events and prop changes in one behaviour
MaxEvents == 2
\* number of prop changes (parent re-renders) in one behaviour
MaxPropChanges == 1

(* ---------------- JavaScript helpers ---------------- *)

\* undefined (an optional prop the caller did not pass)
Undefined == <<>>

\* a supplied optional numeric prop
Some(n) == <<n>>

\* a window entry that is a number
Num(n) == [type |-> "number", val |-> n]

\* the window entry '...'
Ellipsis == [type |-> "string", val |-> 0]

\* Math.ceil(a / b) for integers a and b, b # 0
MathCeilDiv(a, b) == IF b > 0 THEN -((-a) \div b) ELSE -(a \div (-b))

\* faulty variant of ArrayFromLength: the map yields the index i, not i + 1
ArrayFromLengthM(n) == [i \in 1..(IF n > 0 THEN n ELSE 0) |-> Num(i - 1)]
\* Array.from({ length: n }).map((_, i) => i + 1): a negative length is 0
ArrayFromLength(n) == [i \in 1..(IF n > 0 THEN n ELSE 0) |-> Num(i)]

(* ---------------- props ---------------- *)

TotalResultsValues == (-MaxNegative)..MaxTotalResults

ResultsPerPageValues ==
    {Undefined} \cup {Some(n) : n \in ((-1)..MaxResultsPerPage) \ {0}}

ActivePageValues == {Undefined} \cup {Some(n) : n \in (-1)..MaxActivePage}

PaginationProps ==
    [totalResults : TotalResultsValues,
     resultsPerPage : ResultsPerPageValues,
     activePage : ActivePageValues]

VARIABLES
    props,         \* the props of the last render
    page,          \* useState: the active page
    pages,         \* useState: the window
    pending,       \* passive effects scheduled by the last commit
    calls,         \* the arguments onChange has been called with, in order
    lastEvent,     \* the last event handled: mount, previous, next, select, props
    nEvents,       \* events handled so far
    nPropChanges,  \* prop changes so far
    mountProps,    \* the props of the first render
    committed      \* history: the values the active page has taken, in order

vars == <<props, page, pages, pending, calls, lastEvent, nEvents,
          nPropChanges, mountProps, committed>>

(* ---------------- the render ---------------- *)

\* const { resultsPerPage = 10 } = props
ResultsPerPageOf(p) ==
    IF p.resultsPerPage = Undefined THEN 10 ELSE p.resultsPerPage[1]

\* const TOTAL_PAGES = Math.ceil(totalResults / resultsPerPage)
TotalPagesOf(p) == MathCeilDiv(p.totalResults, ResultsPerPageOf(p))

TOTAL_PAGES == TotalPagesOf(props)

FIRST_PAGE == 1

LAST_PAGE == TOTAL_PAGES

\* faulty variant of MAX_VISIBLE_PAGES: one more entry allowed
MaxVisiblePagesPlusOne == 7 + 1
\* faulty variant of MAX_VISIBLE_PAGES: lowered without moving the thresholds
MaxVisiblePagesLowered == 7 - 3
MAX_VISIBLE_PAGES == 7

\* useState(activePage || 1) on the first render
InitialPage(p) ==
    IF p.activePage = Undefined THEN 1
    ELSE IF p.activePage[1] = 0 THEN 1 ELSE p.activePage[1]

\* faulty variant of StatePage: the state follows the activePage prop
StatePageM(state, p) == InitialPage(p)
\* useState(activePage || 1) on a later render: the state, whatever the prop
StatePage(state, p) == state

\* faulty variant of WindowEffect: the first threshold is MAX_VISIBLE_PAGES
WindowEffectWide(pg, total) ==
    IF total <= MAX_VISIBLE_PAGES THEN ArrayFromLength(total)
    ELSE IF pg < MAX_VISIBLE_PAGES
    THEN <<Num(1), Num(2), Num(3), Num(4), Num(5), Ellipsis, Num(total)>>
    ELSE IF pg >= 5 /\ pg < total - 3
    THEN <<Num(1), Ellipsis, Num(pg - 1), Num(pg), Num(pg + 1), Ellipsis, Num(total)>>
    ELSE <<Num(1), Ellipsis, Num(total - 4), Num(total - 3), Num(total - 2),
           Num(total - 1), Num(total)>>
\* faulty variant of WindowEffect: the first threshold is pg <= 5
WindowEffectM(pg, total) ==
    IF total <= MAX_VISIBLE_PAGES THEN ArrayFromLength(total)
    ELSE IF pg <= 5
    THEN <<Num(1), Num(2), Num(3), Num(4), Num(5), Ellipsis, Num(total)>>
    ELSE IF pg >= 5 /\ pg < total - 3
    THEN <<Num(1), Ellipsis, Num(pg - 1), Num(pg), Num(pg + 1), Ellipsis, Num(total)>>
    ELSE <<Num(1), Ellipsis, Num(total - 4), Num(total - 3), Num(total - 2),
           Num(total - 1), Num(total)>>
\* the body of the window effect: the array passed to setPages
WindowEffect(pg, total) ==
    IF total <= MAX_VISIBLE_PAGES THEN ArrayFromLength(total)
    ELSE IF pg < 5
    THEN <<Num(1), Num(2), Num(3), Num(4), Num(5), Ellipsis, Num(total)>>
    ELSE IF pg >= 5 /\ pg < total - 3
    THEN <<Num(1), Ellipsis, Num(pg - 1), Num(pg), Num(pg + 1), Ellipsis, Num(total)>>
    ELSE <<Num(1), Ellipsis, Num(total - 4), Num(total - 3), Num(total - 2),
           Num(total - 1), Num(total)>>

\* faulty variant of WindowEffectScheduled: TOTAL_PAGES is missing from the deps
WindowEffectScheduledM(oldPage, oldProps, newPage, newProps) ==
    <<oldPage>> # <<newPage>>
\* the window effect runs after a commit whose [page, TOTAL_PAGES] changed
WindowEffectScheduled(oldPage, oldProps, newPage, newProps) ==
    <<oldPage, TotalPagesOf(oldProps)>> # <<newPage, TotalPagesOf(newProps)>>

\* faulty variant of OnChangeEffectScheduled: no deps, runs after every commit
OnChangeEffectScheduledM(oldPage, newPage) == TRUE
\* the onChange effect runs after a commit whose [page] changed
OnChangeEffectScheduled(oldPage, newPage) == <<oldPage>> # <<newPage>>

\* the passive effects a commit schedules, given the previous commit
EffectsAfterRender(oldPage, oldProps, newPage, newProps) ==
    (IF WindowEffectScheduled(oldPage, oldProps, newPage, newProps)
     THEN {"window"} ELSE {})
    \cup (IF OnChangeEffectScheduled(oldPage, newPage)
          THEN {"onChange"} ELSE {})

\* faulty variant of PrevDisabled: disabled one page too late
PrevDisabledM == page = 0
\* <NavigationButton directionIcon="prev" disabled={page === FIRST_PAGE}>
PrevDisabled == page = FIRST_PAGE

\* faulty variant of NextDisabled: disabled one page too late
NextDisabledM == page = LAST_PAGE + 1
\* <NavigationButton directionIcon="next" disabled={page === LAST_PAGE}>
NextDisabled == page = LAST_PAGE

\* Button: a disabled control does not invoke its onClick
ButtonFires(disabled) == ~disabled

\* pages.map: entry i renders a PageButton unless it is '...'
IsPageButton(i) == pages[i].type # "string"

\* the decimal digit d as a character
DigitChar(d) == <<"0", "1", "2", "3", "4", "5", "6", "7", "8", "9">>[d + 1]

\* Number.prototype.toString of an integer, as a sequence of characters
RECURSIVE NumberToString(_)
NumberToString(n) ==
    IF n < 0 THEN <<"-">> \o NumberToString(-n)
    ELSE IF n < 10 THEN <<DigitChar(n)>>
    ELSE NumberToString(n \div 10) \o <<DigitChar(n % 10)>>

\* p.toString() of a window entry
EntryToString(p) ==
    IF p.type = "string" THEN <<".", ".", ".">> ELSE NumberToString(p.val)

\* faulty variant of KeyOf: the key is the entry alone
KeyOfM(p, i) == EntryToString(p)
\* <li key={p.toString() + i}> for entry p at array index i (from 0)
KeyOf(p, i) == EntryToString(p) \o NumberToString(i)

\* the key of the i-th rendered <li>
RenderedKey(i) == KeyOf(pages[i], i - 1)

(* ---------------- the state machine ---------------- *)

TypeOK ==
    /\ props \in PaginationProps
    /\ page \in Int
    /\ pending \subseteq {"window", "onChange"}
    /\ lastEvent \in {"mount", "previous", "next", "select", "props"}
    /\ nEvents \in 0..MaxEvents

\* the state after the first render has been committed
Init ==
    /\ props \in PaginationProps
    /\ mountProps = props
    /\ page = InitialPage(props)
    /\ pages = <<>>
    /\ pending = {"window", "onChange"}
    /\ calls = <<>>
    /\ committed = <<page>>
    /\ lastEvent = "mount"
    /\ nEvents = 0
    /\ nPropChanges = 0

\* setPage(newPage) in an event handler, and the render it causes
SetPage(newPage) ==
    /\ page' = newPage
    /\ pending' = IF newPage = page THEN {}
                  ELSE EffectsAfterRender(page, props, newPage, props)
    /\ committed' = IF newPage = page THEN committed
                    ELSE Append(committed, newPage)

\* the passive effects of the last commit run, in declaration order, and
\* setPages re-renders the component
FlushEffects ==
    /\ pending # {}
    /\ pages' = IF "window" \in pending THEN WindowEffect(page, TOTAL_PAGES)
                ELSE pages
    /\ calls' = IF "onChange" \in pending THEN Append(calls, page) ELSE calls
    /\ pending' = IF "window" \in pending
                  THEN EffectsAfterRender(page, props, page, props)
                  ELSE {}
    /\ UNCHANGED <<props, page, lastEvent, nEvents, nPropChanges, mountProps,
                   committed>>

\* a click on the Previous navigation button
HandlePreviousClick ==
    /\ pending = {}
    /\ IF ButtonFires(PrevDisabled)
       THEN SetPage(page - 1)
       ELSE UNCHANGED <<page, pending, committed>>
    /\ lastEvent' = "previous"
    /\ nEvents' = nEvents + 1
    /\ UNCHANGED <<props, pages, calls, nPropChanges, mountProps>>

\* a Previous click within the event budget of a behaviour
PreviousClick == nEvents < MaxEvents /\ HandlePreviousClick

\* a click on the Next navigation button
HandleNextClick ==
    /\ pending = {}
    /\ IF ButtonFires(NextDisabled)
       THEN SetPage(page + 1)
       ELSE UNCHANGED <<page, pending, committed>>
    /\ lastEvent' = "next"
    /\ nEvents' = nEvents + 1
    /\ UNCHANGED <<props, pages, calls, nPropChanges, mountProps>>

\* a Next click within the event budget of a behaviour
NextClick == nEvents < MaxEvents /\ HandleNextClick

\* faulty variant of ClickedPage: the array index instead of the entry
ClickedPageM(i) == i - 1
\* onClick={() => setPage(+p)} of the i-th entry: the page it selects
ClickedPage(i) == pages[i].val

\* a click on the i-th entry of the rendered window
PageClick(i) ==
    /\ pending = {}
    /\ nEvents < MaxEvents
    /\ i \in 1..Len(pages)
    /\ IsPageButton(i)
    /\ SetPage(ClickedPage(i))
    /\ lastEvent' = "select"
    /\ nEvents' = nEvents + 1
    /\ UNCHANGED <<props, pages, calls, nPropChanges, mountProps>>

\* a click on the i-th entry of the window of a render whose effects have
\* not run yet: the handler calls setPage, the pending effects are flushed,
\* then the component renders with the new page and the new window
StalePageClick(i) ==
    /\ pending # {}
    /\ lastEvent \in {"mount", "props"}
    /\ nEvents < MaxEvents
    /\ i \in 1..Len(pages)
    /\ IsPageButton(i)
    /\ pages' = IF "window" \in pending THEN WindowEffect(page, TOTAL_PAGES)
                ELSE pages
    /\ calls' = IF "onChange" \in pending THEN Append(calls, page) ELSE calls
    /\ SetPage(ClickedPage(i))
    /\ lastEvent' = "select"
    /\ nEvents' = nEvents + 1
    /\ UNCHANGED <<props, nPropChanges, mountProps>>

\* the props that differ from p in exactly one prop
ChangedProps(p) ==
    {[p EXCEPT !.totalResults = v] : v \in TotalResultsValues \ {p.totalResults}}
    \cup {[p EXCEPT !.resultsPerPage = v] :
              v \in ResultsPerPageValues \ {p.resultsPerPage}}
    \cup {[p EXCEPT !.activePage = v] : v \in ActivePageValues \ {p.activePage}}

\* the parent renders the component again with new props
ParentRender(newProps) ==
    /\ pending = {}
    /\ nEvents < MaxEvents
    /\ nPropChanges < MaxPropChanges
    /\ props' = newProps
    /\ page' = StatePage(page, newProps)
    /\ pending' = EffectsAfterRender(page, props, page', newProps)
    /\ committed' = IF page' = page THEN committed ELSE Append(committed, page')
    /\ lastEvent' = "props"
    /\ nEvents' = nEvents + 1
    /\ nPropChanges' = nPropChanges + 1
    /\ UNCHANGED <<pages, calls, mountProps>>

Next ==
    \/ FlushEffects
    \/ PreviousClick
    \/ NextClick
    \/ \E i \in 1..MAX_VISIBLE_PAGES : PageClick(i)
    \/ \E i \in 1..MAX_VISIBLE_PAGES : StalePageClick(i)
    \/ \E newProps \in ChangedProps(props) : ParentRender(newProps)

Spec == Init /\ [][Next]_vars

(* ---------------- properties ---------------- *)

\* the configuration is the one of the first render
FixedConfiguration == nPropChanges = 0

\* no passive effect is pending: the last commit has settled
Settled == pending = {}

\* a configuration inside the caller's contract
WellFormed(p) == p.totalResults >= 0 /\ ResultsPerPageOf(p) > 0

(* C1: with a fixed configuration, totalPages >= 1 and an initial active   *)
(* page inside [1, totalPages], every state reached by Previous, Next and  *)
(* page-button clicks has 1 <= page <= totalPages.                         *)
C1_ActivePageInRange ==
    (/\ FixedConfiguration
     /\ TOTAL_PAGES >= 1
     /\ InitialPage(mountProps) \in 1..TOTAL_PAGES)
    => page \in 1..TOTAL_PAGES

\* the last page of three or more has been reached by clicking Next
C1_Witness ==
    /\ FixedConfiguration
    /\ InitialPage(mountProps) = 1
    /\ TOTAL_PAGES >= 3
    /\ page = TOTAL_PAGES
    /\ lastEvent = "next"
    /\ nEvents >= 2

\* the four rules of the window, in priority order
ReferenceWindow(activePage, totalPages) ==
    CASE totalPages <= 7 -> [i \in 1..totalPages |-> Num(i)]
      [] totalPages > 7 /\ activePage < 5 ->
            <<Num(1), Num(2), Num(3), Num(4), Num(5), Ellipsis, Num(totalPages)>>
      [] totalPages > 7 /\ 5 <= activePage /\ activePage < totalPages - 3 ->
            <<Num(1), Ellipsis, Num(activePage - 1), Num(activePage),
              Num(activePage + 1), Ellipsis, Num(totalPages)>>
      [] totalPages > 7 /\ activePage >= 5 /\ activePage >= totalPages - 3 ->
            <<Num(1), Ellipsis, Num(totalPages - 4), Num(totalPages - 3),
              Num(totalPages - 2), Num(totalPages - 1), Num(totalPages)>>

(* C2: for every active page >= 1 and totalPages >= 0 the window the       *)
(* component has computed equals the four-rule reference window.           *)
C2_WindowIsReference ==
    (Settled /\ page >= 1 /\ TOTAL_PAGES >= 0)
    => pages = ReferenceWindow(page, TOTAL_PAGES)

\* the centered window of page 5 of 9 or more has been computed
C2_Witness ==
    /\ Settled
    /\ page = 5
    /\ TOTAL_PAGES >= 9
    /\ pages = <<Num(1), Ellipsis, Num(4), Num(5), Num(6), Ellipsis,
                 Num(TOTAL_PAGES)>>

(* C3: onChange is invoked exactly once for each committed transition of   *)
(* the active page, with the new value: the calls made so far are the      *)
(* values the active page has taken, in order, and once the commit has     *)
(* settled no transition is left without its call.                         *)
C3_OnChangeOncePerTransition ==
    /\ Len(calls) <= Len(committed)
    /\ calls = SubSeq(committed, 1, Len(calls))
    /\ Settled => calls = committed

\* two navigation transitions have been notified after the mount
C3_Witness ==
    /\ Settled
    /\ Len(calls) = 3
    /\ calls[2] # calls[1]
    /\ calls[3] = page
    /\ lastEvent \in {"previous", "next", "select"}

(* C4: a Previous click when page = 1 and a Next click when page =         *)
(* totalPages leave the active page and the window unchanged and cause no  *)
(* onChange call.                                                          *)
C4_BoundaryClickNoOp ==
    [][((PreviousClick /\ page = 1) \/ (NextClick /\ page = TOTAL_PAGES))
       => (page' = page /\ pages' = pages /\ calls' = calls /\ pending' = {})]_vars

\* the only event so far was a Next click on the last page, and the active
\* page never changed
C4_Witness ==
    /\ lastEvent = "next"
    /\ nEvents = 1
    /\ TOTAL_PAGES >= 1
    /\ page = TOTAL_PAGES
    /\ committed = <<page>>
    /\ calls = <<page>>
    /\ Settled

(* C5: on mount onChange is invoked exactly once, with the effective       *)
(* initial active page, whether or not the caller supplied activePage, and *)
(* before any navigation-triggered call.                                   *)
C5_MountNotifiesOnce ==
    /\ calls = <<>> => (lastEvent = "mount" /\ nEvents = 0 /\ ~Settled)
    /\ calls # <<>> => calls[1] = committed[1]
    /\ (lastEvent = "mount" /\ Settled) => calls = <<committed[1]>>

\* the caller supplied no activePage and has been told page 1
C5_Witness ==
    /\ mountProps.activePage = Undefined
    /\ lastEvent = "mount"
    /\ Settled
    /\ calls = <<1>>

(* C6: initialization sets the active page to the caller's override when   *)
(* it is provided and inside [1, totalPages], and to 1 in every other      *)
(* case (stated for the configurations inside the caller's contract).      *)
C6_InitialPageValidated ==
    (lastEvent = "mount" /\ WellFormed(mountProps))
    => page = (IF /\ mountProps.activePage # Undefined
                  /\ mountProps.activePage[1] \in 1..TotalPagesOf(mountProps)
               THEN mountProps.activePage[1]
               ELSE 1)

(* C7: with totalResults = 0 the control is a single page: the active page *)
(* is 1 and stays 1 under Previous and Next clicks, and the window is      *)
(* empty.                                                                  *)
C7_ZeroResultsSinglePage ==
    (/\ FixedConfiguration
     /\ props.totalResults = 0
     /\ InitialPage(mountProps) = 1)
    => (page = 1 /\ (Settled => pages = <<>>))

(* C8: in every reachable state every page button of the rendered window   *)
(* carries a page number p with 1 <= p <= totalPages (stated for the       *)
(* configurations inside the caller's contract and a valid initial page).  *)
C8_RenderedButtonsInRange ==
    (/\ WellFormed(mountProps)
     /\ WellFormed(props)
     /\ InitialPage(mountProps) \in 1..TotalPagesOf(mountProps))
    => \A i \in 1..Len(pages) :
           IsPageButton(i) => pages[i].val \in 1..TOTAL_PAGES

(* C9: after mount a change of the activePage prop has no effect on the    *)
(* active page, the window or the onChange calls.                          *)
C9_ActivePagePropIgnored ==
    [][props'.activePage # props.activePage
       => (page' = page /\ pages' = pages /\ calls' = calls /\ pending' = {})]_vars

\* the activePage prop was changed to 2 while the active page is elsewhere
C9_Witness ==
    /\ lastEvent = "props"
    /\ props.activePage = Some(2)
    /\ mountProps.activePage # Some(2)
    /\ page > 2
    /\ Settled

(* C10: the derived totalPages is never negative, for malformed            *)
(* configurations too, and a totalPages of 0 yields an empty window.       *)
C10_TotalPagesNonNegative ==
    /\ TOTAL_PAGES >= 0
    /\ (TOTAL_PAGES = 0 /\ Settled) => pages = <<>>

(* C11: whenever totalPages > 0 the computed window starts with page 1 and *)
(* ends with page totalPages, for every active page.                       *)
C11_FirstAndLastAnchored ==
    (Settled /\ TOTAL_PAGES > 0)
    => (/\ Len(pages) >= 1
        /\ pages[1] = Num(1)
        /\ pages[Len(pages)] = Num(TOTAL_PAGES))

\* a window with ellipses on both sides is anchored at 1 and totalPages
C11_Witness ==
    /\ Settled
    /\ TOTAL_PAGES > MAX_VISIBLE_PAGES
    /\ Len(pages) = 7
    /\ pages[2] = Ellipsis
    /\ pages[6] = Ellipsis
    /\ pages[1] = Num(1)
    /\ pages[7] = Num(TOTAL_PAGES)

(* C12: the window never holds more than 7 entries, in any reachable       *)
(* state.                                                                  *)
C12_AtMostSevenTokens == Len(pages) <= 7

\* a full window of 7 entries for more than 7 pages, one of them '...'
C12_Witness ==
    /\ Len(pages) = 7
    /\ TOTAL_PAGES >= 8
    /\ pages[6] = Ellipsis
    /\ pages[2] # Ellipsis

\* the positions of the window that hold a page number
NumberPositions == {i \in 1..Len(pages) : pages[i].type = "number"}

(* C13: the page numbers of a window are strictly increasing from left to  *)
(* right, and in the centered window activePage-1 > 1 and activePage+1 <   *)
(* totalPages.                                                             *)
C13_NumbersStrictlyIncreasing ==
    /\ \A i \in NumberPositions : \A j \in NumberPositions :
           i < j => pages[i].val < pages[j].val
    /\ (Len(pages) = 7 /\ pages[2] = Ellipsis /\ pages[6] = Ellipsis)
       => (pages[3].val > 1 /\ pages[5].val < pages[7].val)

\* the trailing window of the last page of more than 7
C13_Witness ==
    /\ Settled
    /\ TOTAL_PAGES >= 8
    /\ page = TOTAL_PAGES
    /\ pages = <<Num(1), Ellipsis, Num(page - 4), Num(page - 3), Num(page - 2),
                 Num(page - 1), Num(page)>>

(* C14: the implementation refines the transition function of the paging   *)
(* state machine: an event handled in a settled state with a valid active  *)
(* page k moves it as goToPrevious (k-1 if k > 1), goToNext (k+1 if k <    *)
(* totalPages) or selectPage(j) (j in [1, totalPages]) does, and whenever  *)
(* the commit has settled the stored window is the reference window of the *)
(* active page and totalPages, whatever the path.                          *)
C14_RefinesTransitionFunction ==
    [][/\ (Settled /\ page \in 1..TOTAL_PAGES)
          => (/\ PreviousClick
                 => page' = (IF page > 1 THEN page - 1 ELSE page)
              /\ NextClick
                 => page' = (IF page < TOTAL_PAGES THEN page + 1 ELSE page)
              /\ \A i \in 1..7 :
                     PageClick(i)
                     => (page' = pages[i].val /\ page' \in 1..TOTAL_PAGES))
       /\ (Settled' /\ page' >= 1 /\ TOTAL_PAGES' >= 0)
          => pages' = ReferenceWindow(page', TOTAL_PAGES')]_vars

\* page 4 reached through page 5: the window is the one of page 4
C14_Witness ==
    /\ Settled
    /\ TOTAL_PAGES >= 9
    /\ committed = <<1, 5, 4>>
    /\ lastEvent = "previous"
    /\ pages = <<Num(1), Num(2), Num(3), Num(4), Num(5), Ellipsis,
                 Num(TOTAL_PAGES)>>

(* C15: events are processed in dispatch order and each transition is      *)
(* complete (state update, window recomputation, onChange call) before the *)
(* next event is handled: no handler acts on a stale active page or a      *)
(* stale window, and a Next click on page k < totalPages ends at k + 1.    *)
C15_EventsHandledInOrder ==
    [][/\ (nEvents' # nEvents /\ WellFormed(mountProps) /\ WellFormed(props))
          => (Settled /\ calls = committed)
       /\ (NextClick /\ ~NextDisabled) => page' = page + 1
       /\ calls' # calls => calls' = Append(calls, page)]_vars

(* C16: once totalPages has shrunk below the active page, the next         *)
(* Previous, Next or page-button click brings the active page back into    *)
(* [1, totalPages].                                                        *)
C16_NavigationRestoresRange ==
    [][(/\ WellFormed(mountProps)
        /\ InitialPage(mountProps) \in 1..TotalPagesOf(mountProps)
        /\ WellFormed(props)
        /\ TOTAL_PAGES >= 1
        /\ page > TOTAL_PAGES
        /\ (PreviousClick \/ NextClick \/ \E i \in 1..7 : PageClick(i)))
       => page' \in 1..TOTAL_PAGES]_vars

(* C17: the list-rendering keys of the entries of a window are pairwise    *)
(* distinct, the two '...' of the centered window included.                *)
C17_KeysDistinct ==
    \A i \in 1..Len(pages) : \A j \in 1..Len(pages) :
        i # j => RenderedKey(i) # RenderedKey(j)

\* a centered window with a two-digit last page: the keys "...1" and "...5"
C17_Witness ==
    /\ Settled
    /\ TOTAL_PAGES >= 10
    /\ Len(pages) = 7
    /\ pages[2] = Ellipsis
    /\ pages[6] = Ellipsis
    /\ RenderedKey(2) = <<".", ".", ".", "1">>
    /\ RenderedKey(6) = <<".", ".", ".", "5">>
    /\ Len(RenderedKey(7)) = 3

\* the positions whose PageButton gets isActive={p === page}
ActivePositions == {i \in 1..Len(pages) : pages[i] = Num(page)}

(* C18: whenever 1 <= page <= totalPages and the window has settled, the   *)
(* active page is exactly one entry of the window: exactly one page button *)
(* is highlighted.                                                         *)
C18_ActivePageShownOnce ==
    (Settled /\ page \in 1..TOTAL_PAGES) => Cardinality(ActivePositions) = 1

\* the first page of the trailing window is the active one
C18_Witness ==
    /\ Settled
    /\ TOTAL_PAGES >= 9
    /\ page = TOTAL_PAGES - 3
    /\ ActivePositions = {4}
    /\ pages[2] = Ellipsis

(* C19: a click on the page button of the already active page is not a     *)
(* transition: the active page and the window stay unchanged and onChange  *)
(* is not invoked.                                                         *)
C19_SamePageClickNoOp ==
    [][\A i \in 1..7 :
           (PageClick(i) /\ pages[i] = Num(page))
           => (/\ page' = page
               /\ pages' = pages
               /\ calls' = calls
               /\ committed' = committed
               /\ pending' = {})]_vars

\* the only event so far was a click on the button of the active page 2
C19_Witness ==
    /\ lastEvent = "select"
    /\ nEvents = 1
    /\ Settled
    /\ page = 2
    /\ ActivePositions = {2}
    /\ committed = <<2>>
    /\ calls = <<2>>

(* ---------------- walking to the last or the first page ---------------- *)

\* a mount with totalPages >= 1 and a valid active page
NavInit == Init /\ TOTAL_PAGES >= 1 /\ page \in 1..TOTAL_PAGES

\* the user clicks Next whenever it is enabled, and never Previous
ClickNextWhenEnabled ==
    /\ lastEvent \in {"mount", "next"}
    /\ ~NextDisabled
    /\ HandleNextClick

\* the user clicks Previous whenever it is enabled, and never Next
ClickPreviousWhenEnabled ==
    /\ lastEvent \in {"mount", "previous"}
    /\ ~PrevDisabled
    /\ HandlePreviousClick

NavNext ==
    \/ FlushEffects
    \/ ClickNextWhenEnabled
    \/ ClickPreviousWhenEnabled

\* effects are flushed and an enabled button is eventually clicked
NavSpec ==
    /\ NavInit
    /\ [][NavNext]_vars
    /\ WF_vars(FlushEffects)
    /\ WF_vars(ClickNextWhenEnabled)
    /\ WF_vars(ClickPreviousWhenEnabled)

\* the last page has been reached from page k = committed[1] by exactly
\* totalPages - k clicks, through every page in between, and Next is disabled
ReachedLastPage ==
    /\ Settled
    /\ page = TOTAL_PAGES
    /\ NextDisabled
    /\ nEvents = TOTAL_PAGES - committed[1]
    /\ committed = [i \in 1..(nEvents + 1) |-> committed[1] + i - 1]
    /\ calls = committed

\* page 1 has been reached from page k = committed[1] by exactly k - 1
\* clicks, through every page in between, and Previous is disabled
ReachedFirstPage ==
    /\ Settled
    /\ page = 1
    /\ PrevDisabled
    /\ nEvents = committed[1] - 1
    /\ committed = [i \in 1..(nEvents + 1) |-> committed[1] - i + 1]
    /\ calls = committed

(* C20: with totalPages >= 1 and a valid active page k, clicking Next      *)
(* whenever it is enabled eventually reaches the last page, after exactly  *)
(* totalPages - k clicks, and Next is then disabled; symmetrically         *)
(* Previous reaches page 1 after k - 1 clicks; the pages in between are    *)
(* all visited.                                                            *)
C20_NextReachesLastPage ==
    /\ [](lastEvent # "previous") => <>ReachedLastPage
    /\ [](lastEvent # "next") => <>ReachedFirstPage

\* the last of 5 or more pages reached from page 1 by Next clicks
C20_Witness ==
    /\ ReachedLastPage
    /\ lastEvent = "next"
    /\ committed[1] = 1
    /\ TOTAL_PAGES >= 5

====
